---- MODULE Spec2Model ----
(***************************************************************************)
(* Model of cloud_browser/cloud/rackspace.py: the Rackspace adapter of     *)
(* django-cloud-browser.  The adapter keeps no state between calls, so     *)
(* every action is one whole call of one adapter method; the state records *)
(* the call, what the vendor SDK answered, the SDK calls that were issued  *)
(* and what the method returned or raised.                                 *)
(*                                                                         *)
(* Python strings that the code takes apart (names, markers, paths, time   *)
(* stamps) are sequences of characters; None is the value None below.  A   *)
(* character is the string of that one character, "a"; a character that a  *)
(* string of a module cannot hold is the string of its code point,         *)
(* "U+2000" for the character U+2000.                                      *)
(***************************************************************************)
EXTENDS Integers, Sequences, FiniteSets, TLC

VARIABLES op, args, vendor_resp, vendor_calls, collapsed, outcome

vars == <<op, args, vendor_resp, vendor_calls, collapsed, outcome>>

(***************************************************************************)
(* Bounds of the model.                                                    *)
(***************************************************************************)
MaxPage == 3
MaxLimit == 3

(***************************************************************************)
(* Constants of the program.                                               *)
(***************************************************************************)
RS_MAX_GET_OBJS_LIMIT == 10000

SEP == "/"

None == <<"None">>

APP_DIR == "application/directory"
TEXT_PLAIN == "text/plain"

(***************************************************************************)
(* Python helpers, computed as Python computes them.                       *)
(***************************************************************************)
\* bool(s) of a str-or-None value: None and '' are false.
Truthy(s) == s # None /\ s # <<>>

RECURSIVE lstrip(_, _)
lstrip(s, c) == IF s # <<>> /\ Head(s) = c THEN lstrip(Tail(s), c) ELSE s

RECURSIVE rstrip(_, _)
rstrip(s, c) ==
    IF s # <<>> /\ s[Len(s)] = c THEN rstrip(SubSeq(s, 1, Len(s) - 1), c) ELSE s

\* str.strip(c)
strip(s, c) == rstrip(lstrip(s, c), c)

\* dict.get(key, default)
get(info, key, default) == IF key \in DOMAIN info THEN info[key] ELSE default

\* str.partition(sep)[0] for a separator of one character
RECURSIVE partition0(_, _)
partition0(s, sep) ==
    IF s = <<>> \/ Head(s) = sep THEN <<>>
    ELSE <<Head(s)>> \o partition0(Tail(s), sep)

\* How a function ends: it returns a value or raises.  `vendor` tells an
\* error of the vendor SDK from one of Python or of this package.
Return(v) == [kind |-> "return", value |-> v]
Raise(e) == [kind |-> "raise", exc |-> e, vendor |-> FALSE]
RaiseVendor(e) == [kind |-> "raise", exc |-> e, vendor |-> TRUE]

\* [0-9]
DigitSet == {"0", "1", "2", "3", "4", "5", "6", "7", "8", "9"}

\* The decimal digits of other scripts, each row from zero to nine: \d
\* matches them and int() reads them.
UnicodeDigits ==
    <<<<"U+0660", "U+0661", "U+0662", "U+0663", "U+0664", "U+0665", "U+0666", "U+0667", "U+0668", "U+0669">>,
      <<"۰", "۱", "۲", "۳", "۴", "۵", "۶", "۷", "۸", "۹">>,
      <<"߀", "߁", "߂", "߃", "߄", "߅", "߆", "߇", "߈", "߉">>,
      <<"U+0966", "U+0967", "U+0968", "U+0969", "U+096A", "U+096B", "U+096C", "U+096D", "U+096E", "U+096F">>,
      <<"০", "১", "২", "৩", "৪", "৫", "৬", "৭", "৮", "৯">>,
      <<"U+0A66", "U+0A67", "U+0A68", "U+0A69", "U+0A6A", "U+0A6B", "U+0A6C", "U+0A6D", "U+0A6E", "U+0A6F">>,
      <<"૦", "૧", "૨", "૩", "૪", "૫", "૬", "૭", "૮", "૯">>,
      <<"U+0B66", "U+0B67", "U+0B68", "U+0B69", "U+0B6A", "U+0B6B", "U+0B6C", "U+0B6D", "U+0B6E", "U+0B6F">>,
      <<"௦", "௧", "௨", "௩", "௪", "௫", "௬", "௭", "௮", "௯">>,
      <<"U+0C66", "U+0C67", "U+0C68", "U+0C69", "U+0C6A", "U+0C6B", "U+0C6C", "U+0C6D", "U+0C6E", "U+0C6F">>,
      <<"೦", "೧", "೨", "೩", "೪", "೫", "೬", "೭", "೮", "೯">>,
      <<"U+0D66", "U+0D67", "U+0D68", "U+0D69", "U+0D6A", "U+0D6B", "U+0D6C", "U+0D6D", "U+0D6E", "U+0D6F">>,
      <<"෦", "෧", "෨", "෩", "෪", "෫", "෬", "෭", "෮", "෯">>,
      <<"U+0E50", "U+0E51", "U+0E52", "U+0E53", "U+0E54", "U+0E55", "U+0E56", "U+0E57", "U+0E58", "U+0E59">>,
      <<"໐", "໑", "໒", "໓", "໔", "໕", "໖", "໗", "໘", "໙">>,
      <<"U+0F20", "U+0F21", "U+0F22", "U+0F23", "U+0F24", "U+0F25", "U+0F26", "U+0F27", "U+0F28", "U+0F29">>,
      <<"U+1040", "U+1041", "U+1042", "U+1043", "U+1044", "U+1045", "U+1046", "U+1047", "U+1048", "U+1049">>,
      <<"႐", "႑", "႒", "႓", "႔", "႕", "႖", "႗", "႘", "႙">>,
      <<"០", "១", "២", "៣", "៤", "៥", "៦", "៧", "៨", "៩">>,
      <<"U+1810", "U+1811", "U+1812", "U+1813", "U+1814", "U+1815", "U+1816", "U+1817", "U+1818", "U+1819">>,
      <<"U+1946", "U+1947", "U+1948", "U+1949", "U+194A", "U+194B", "U+194C", "U+194D", "U+194E", "U+194F">>,
      <<"᧐", "᧑", "᧒", "᧓", "᧔", "᧕", "᧖", "᧗", "᧘", "᧙">>,
      <<"᪀", "᪁", "᪂", "᪃", "᪄", "᪅", "᪆", "᪇", "᪈", "᪉">>,
      <<"᪐", "᪑", "᪒", "᪓", "᪔", "᪕", "᪖", "᪗", "᪘", "᪙">>,
      <<"U+1B50", "U+1B51", "U+1B52", "U+1B53", "U+1B54", "U+1B55", "U+1B56", "U+1B57", "U+1B58", "U+1B59">>,
      <<"᮰", "᮱", "᮲", "᮳", "᮴", "᮵", "᮶", "᮷", "᮸", "᮹">>,
      <<"U+1C40", "U+1C41", "U+1C42", "U+1C43", "U+1C44", "U+1C45", "U+1C46", "U+1C47", "U+1C48", "U+1C49">>,
      <<"U+1C50", "U+1C51", "U+1C52", "U+1C53", "U+1C54", "U+1C55", "U+1C56", "U+1C57", "U+1C58", "U+1C59">>,
      <<"U+A620", "U+A621", "U+A622", "U+A623", "U+A624", "U+A625", "U+A626", "U+A627", "U+A628", "U+A629">>,
      <<"꣐", "꣑", "꣒", "꣓", "꣔", "꣕", "꣖", "꣗", "꣘", "꣙">>,
      <<"U+A900", "U+A901", "U+A902", "U+A903", "U+A904", "U+A905", "U+A906", "U+A907", "U+A908", "U+A909">>,
      <<"꧐", "꧑", "꧒", "꧓", "꧔", "꧕", "꧖", "꧗", "꧘", "꧙">>,
      <<"꧰", "꧱", "꧲", "꧳", "꧴", "꧵", "꧶", "꧷", "꧸", "꧹">>,
      <<"U+AA50", "U+AA51", "U+AA52", "U+AA53", "U+AA54", "U+AA55", "U+AA56", "U+AA57", "U+AA58", "U+AA59">>,
      <<"꯰", "꯱", "꯲", "꯳", "꯴", "꯵", "꯶", "꯷", "꯸", "꯹">>,
      <<"U+FF10", "U+FF11", "U+FF12", "U+FF13", "U+FF14", "U+FF15", "U+FF16", "U+FF17", "U+FF18", "U+FF19">>,
      <<"U+104A0", "U+104A1", "U+104A2", "U+104A3", "U+104A4", "U+104A5", "U+104A6", "U+104A7", "U+104A8", "U+104A9">>,
      <<"U+10D30", "U+10D31", "U+10D32", "U+10D33", "U+10D34", "U+10D35", "U+10D36", "U+10D37", "U+10D38", "U+10D39">>,
      <<"U+11066", "U+11067", "U+11068", "U+11069", "U+1106A", "U+1106B", "U+1106C", "U+1106D", "U+1106E", "U+1106F">>,
      <<"U+110F0", "U+110F1", "U+110F2", "U+110F3", "U+110F4", "U+110F5", "U+110F6", "U+110F7", "U+110F8", "U+110F9">>,
      <<"U+11136", "U+11137", "U+11138", "U+11139", "U+1113A", "U+1113B", "U+1113C", "U+1113D", "U+1113E", "U+1113F">>,
      <<"U+111D0", "U+111D1", "U+111D2", "U+111D3", "U+111D4", "U+111D5", "U+111D6", "U+111D7", "U+111D8", "U+111D9">>,
      <<"U+112F0", "U+112F1", "U+112F2", "U+112F3", "U+112F4", "U+112F5", "U+112F6", "U+112F7", "U+112F8", "U+112F9">>,
      <<"U+11450", "U+11451", "U+11452", "U+11453", "U+11454", "U+11455", "U+11456", "U+11457", "U+11458", "U+11459">>,
      <<"U+114D0", "U+114D1", "U+114D2", "U+114D3", "U+114D4", "U+114D5", "U+114D6", "U+114D7", "U+114D8", "U+114D9">>,
      <<"U+11650", "U+11651", "U+11652", "U+11653", "U+11654", "U+11655", "U+11656", "U+11657", "U+11658", "U+11659">>,
      <<"U+116C0", "U+116C1", "U+116C2", "U+116C3", "U+116C4", "U+116C5", "U+116C6", "U+116C7", "U+116C8", "U+116C9">>,
      <<"U+11730", "U+11731", "U+11732", "U+11733", "U+11734", "U+11735", "U+11736", "U+11737", "U+11738", "U+11739">>,
      <<"U+118E0", "U+118E1", "U+118E2", "U+118E3", "U+118E4", "U+118E5", "U+118E6", "U+118E7", "U+118E8", "U+118E9">>,
      <<"U+11950", "U+11951", "U+11952", "U+11953", "U+11954", "U+11955", "U+11956", "U+11957", "U+11958", "U+11959">>,
      <<"U+11C50", "U+11C51", "U+11C52", "U+11C53", "U+11C54", "U+11C55", "U+11C56", "U+11C57", "U+11C58", "U+11C59">>,
      <<"U+11D50", "U+11D51", "U+11D52", "U+11D53", "U+11D54", "U+11D55", "U+11D56", "U+11D57", "U+11D58", "U+11D59">>,
      <<"U+11DA0", "U+11DA1", "U+11DA2", "U+11DA3", "U+11DA4", "U+11DA5", "U+11DA6", "U+11DA7", "U+11DA8", "U+11DA9">>,
      <<"U+16A60", "U+16A61", "U+16A62", "U+16A63", "U+16A64", "U+16A65", "U+16A66", "U+16A67", "U+16A68", "U+16A69">>,
      <<"U+16AC0", "U+16AC1", "U+16AC2", "U+16AC3", "U+16AC4", "U+16AC5", "U+16AC6", "U+16AC7", "U+16AC8", "U+16AC9">>,
      <<"U+16B50", "U+16B51", "U+16B52", "U+16B53", "U+16B54", "U+16B55", "U+16B56", "U+16B57", "U+16B58", "U+16B59">>,
      <<"U+1D7CE", "U+1D7CF", "U+1D7D0", "U+1D7D1", "U+1D7D2", "U+1D7D3", "U+1D7D4", "U+1D7D5", "U+1D7D6", "U+1D7D7">>,
      <<"U+1D7D8", "U+1D7D9", "U+1D7DA", "U+1D7DB", "U+1D7DC", "U+1D7DD", "U+1D7DE", "U+1D7DF", "U+1D7E0", "U+1D7E1">>,
      <<"U+1D7E2", "U+1D7E3", "U+1D7E4", "U+1D7E5", "U+1D7E6", "U+1D7E7", "U+1D7E8", "U+1D7E9", "U+1D7EA", "U+1D7EB">>,
      <<"U+1D7EC", "U+1D7ED", "U+1D7EE", "U+1D7EF", "U+1D7F0", "U+1D7F1", "U+1D7F2", "U+1D7F3", "U+1D7F4", "U+1D7F5">>,
      <<"U+1D7F6", "U+1D7F7", "U+1D7F8", "U+1D7F9", "U+1D7FA", "U+1D7FB", "U+1D7FC", "U+1D7FD", "U+1D7FE", "U+1D7FF">>,
      <<"U+1E140", "U+1E141", "U+1E142", "U+1E143", "U+1E144", "U+1E145", "U+1E146", "U+1E147", "U+1E148", "U+1E149">>,
      <<"U+1E2F0", "U+1E2F1", "U+1E2F2", "U+1E2F3", "U+1E2F4", "U+1E2F5", "U+1E2F6", "U+1E2F7", "U+1E2F8", "U+1E2F9">>,
      <<"U+1E950", "U+1E951", "U+1E952", "U+1E953", "U+1E954", "U+1E955", "U+1E956", "U+1E957", "U+1E958", "U+1E959">>,
      <<"U+1FBF0", "U+1FBF1", "U+1FBF2", "U+1FBF3", "U+1FBF4", "U+1FBF5", "U+1FBF6", "U+1FBF7", "U+1FBF8", "U+1FBF9">>>>

\* \d
Digits ==
    DigitSet \cup UNION {{UnicodeDigits[b][i] : i \in 1..10} : b \in 1..Len(UnicodeDigits)}

Uppers ==
    <<"A", "B", "C", "D", "E", "F", "G", "H", "I", "J", "K", "L", "M",
      "N", "O", "P", "Q", "R", "S", "T", "U", "V", "W", "X", "Y", "Z">>

Lowers ==
    <<"a", "b", "c", "d", "e", "f", "g", "h", "i", "j", "k", "l", "m",
      "n", "o", "p", "q", "r", "s", "t", "u", "v", "w", "x", "y", "z">>

\* \s: blank, tab, line feed, carriage return, form feed, then vertical tab,
\* the separators U+001C to U+001F, next line U+0085, no-break space U+00A0,
\* ogham space mark U+1680 and the other spaces of Unicode.
Whitespace ==
    {" ", "\t", "\n", "\r", "\f",
     "", "", "", "", "", "", " ", " ",
     "U+2000", "U+2001", "U+2002", "U+2003", "U+2004", "U+2005",
     "U+2006", "U+2007", "U+2008", "U+2009", "U+200A",
     "U+2028", "U+2029", "U+202F", "U+205F", "U+3000"}

\* int(c) of one digit
DigitVal(c) ==
    CASE c = "0" -> 0 [] c = "1" -> 1 [] c = "2" -> 2 [] c = "3" -> 3
      [] c = "4" -> 4 [] c = "5" -> 5 [] c = "6" -> 6 [] c = "7" -> 7
      [] c = "8" -> 8 [] c = "9" -> 9
      [] OTHER ->
            LET b == CHOOSE b \in 1..Len(UnicodeDigits) :
                         \E i \in 1..10 : UnicodeDigits[b][i] = c
            IN  (CHOOSE i \in 1..10 : UnicodeDigits[b][i] = c) - 1

AllDigits(s) == \A i \in 1..Len(s) : s[i] \in DigitSet

\* int(s) of a string of digits
RECURSIVE int_upto(_, _)
int_upto(s, n) == IF n = 0 THEN 0 ELSE 10 * int_upto(s, n - 1) + DigitVal(s[n])

int(s) == int_upto(s, Len(s))

\* str.lower(), character by character
lower(s) ==
    [i \in 1..Len(s) |->
        IF \E k \in 1..Len(Uppers) : Uppers[k] = s[i]
        THEN Lowers[CHOOSE k \in 1..Len(Uppers) : Uppers[k] = s[i]]
        ELSE s[i]]

\* Index of the first character of s from position i on that is in cs, 0 if
\* there is none.
RECURSIVE find_from(_, _, _)
find_from(s, cs, i) ==
    IF i > Len(s) THEN 0 ELSE IF s[i] \in cs THEN i ELSE find_from(s, cs, i + 1)

find(s, cs) == find_from(s, cs, 1)

\* Length of the longest run of characters of cs that starts s at position i.
RECURSIVE run_from(_, _, _)
run_from(s, cs, i) ==
    IF i <= Len(s) /\ s[i] \in cs THEN 1 + run_from(s, cs, i + 1) ELSE 0

run(s, cs) == run_from(s, cs, 1)

drop(s, n) == SubSeq(s, n + 1, Len(s))

\* The steps of a format, as _strptime's regular expression matches them:
\* a field of n characters, a field of digits, a field that ends at a literal
\* character, a literal character, a run of white space.
Take(n) == [t |-> "take", n |-> n, cs |-> {}]
DigitsField == [t |-> "digits", n |-> 0, cs |-> {}]
Until(cs) == [t |-> "until", n |-> 0, cs |-> cs]
Lit(cs) == [t |-> "lit", n |-> 0, cs |-> cs]
Blank == [t |-> "ws", n |-> 0, cs |-> {}]

\* The fields of s under the format steps pat, followed by what is left of s;
\* fewer fields than that when s does not fit the format.
RECURSIVE scan(_, _)
scan(s, pat) ==
    IF pat = <<>> THEN <<s>>
    ELSE LET p == Head(pat)
             i == find(s, p.cs)
             w == run(s, Whitespace)
             d == run(s, Digits)
         IN  CASE p.t = "take" ->
                    IF Len(s) >= p.n
                    THEN <<SubSeq(s, 1, p.n)>> \o scan(drop(s, p.n), Tail(pat))
                    ELSE <<>>
               [] p.t = "digits" ->
                    <<SubSeq(s, 1, d)>> \o scan(drop(s, d), Tail(pat))
               [] p.t = "until" ->
                    IF i # 0
                    THEN <<SubSeq(s, 1, i - 1)>> \o scan(drop(s, i), Tail(pat))
                    ELSE <<>>
               [] p.t = "lit" ->
                    IF s # <<>> /\ Head(s) \in p.cs
                    THEN scan(Tail(s), Tail(pat)) ELSE <<>>
               [] p.t = "ws" ->
                    IF w >= 1 THEN scan(drop(s, w), Tail(pat)) ELSE <<>>

\* The fields of _strptime's regular expressions: the number a field stands
\* for when the whole field matches its directive, -1 when it does not.
in_range(v, lo, hi) == IF v >= lo /\ v <= hi THEN v ELSE -1

\* A field of the digits 0 to 9.
number(f, lens, lo, hi) ==
    IF Len(f) \in lens /\ AllDigits(f) THEN in_range(int(f), lo, hi) ELSE -1

\* A field that ends in \d: one digit where the directive allows it, or one
\* of the characters tens and a digit.
ends_in_digit(f, one, tens) ==
    \/ one /\ Len(f) = 1 /\ f[1] \in Digits
    \/ Len(f) = 2 /\ f[1] \in tens /\ f[2] \in Digits

\* %Y  \d\d\d\d
re_Y(f) ==
    IF Len(f) = 4 /\ \A i \in 1..4 : f[i] \in Digits THEN int(f) ELSE -1
\* %m  1[0-2]|0[1-9]|[1-9]
re_m(f) == number(f, {1, 2}, 1, 12)
\* %d  3[01]|[12]\d|0[1-9]|[1-9]| [1-9]
re_d(f) ==
    IF Len(f) = 2 /\ f[1] = " " THEN number(<<f[2]>>, {1}, 1, 9)
    ELSE IF ends_in_digit(f, FALSE, {"1", "2"}) THEN int(f)
    ELSE number(f, {1, 2}, 1, 31)
\* %H  2[0-3]|[0-1]\d|\d
re_H(f) ==
    IF ends_in_digit(f, TRUE, {"0", "1"}) THEN int(f)
    ELSE number(f, {2}, 20, 23)
\* %M  [0-5]\d|\d
re_M(f) ==
    IF ends_in_digit(f, TRUE, {"0", "1", "2", "3", "4", "5"}) THEN int(f)
    ELSE -1
\* %S  6[0-1]|[0-5]\d|\d
re_S(f) ==
    IF ends_in_digit(f, TRUE, {"0", "1", "2", "3", "4", "5"}) THEN int(f)
    ELSE number(f, {2}, 60, 61)

Weekdays ==
    <<<<"m", "o", "n">>, <<"t", "u", "e">>, <<"w", "e", "d">>, <<"t", "h", "u">>,
      <<"f", "r", "i">>, <<"s", "a", "t">>, <<"s", "u", "n">>>>

Months ==
    <<<<"j", "a", "n">>, <<"f", "e", "b">>, <<"m", "a", "r">>, <<"a", "p", "r">>,
      <<"m", "a", "y">>, <<"j", "u", "n">>, <<"j", "u", "l">>, <<"a", "u", "g">>,
      <<"s", "e", "p">>, <<"o", "c", "t">>, <<"n", "o", "v">>, <<"d", "e", "c">>>>

\* %a
re_a(f) == IF \E i \in 1..Len(Weekdays) : Weekdays[i] = lower(f) THEN 0 ELSE -1
\* %b
re_b(f) ==
    IF \E i \in 1..Len(Months) : Months[i] = lower(f)
    THEN CHOOSE i \in 1..Len(Months) : Months[i] = lower(f) ELSE -1

IsLeap(y) == y % 4 = 0 /\ (y % 100 # 0 \/ y % 400 = 0)

DaysInMonth(y, m) ==
    IF m = 2 THEN (IF IsLeap(y) THEN 29 ELSE 28)
    ELSE IF m \in {4, 6, 9, 11} THEN 30 ELSE 31

\* datetime(y, m, d, H, M, S), which checks the ranges of its arguments
datetime(y, m, d, H, M, S) ==
    IF /\ y >= 1 /\ y <= 9999
       /\ m >= 1 /\ m <= 12
       /\ d >= 1 /\ d <= DaysInMonth(y, m)
       /\ H >= 0 /\ H <= 23
       /\ M >= 0 /\ M <= 59
       /\ S >= 0 /\ S <= 59
    THEN Return(<<y, m, d, H, M, S>>)
    ELSE Raise("ValueError")

\* "%Y-%m-%dT%H:%M:%S": the fields lie between the literal separators
\* (letters match in either case); the last field is the rest of the string.
format_iso ==
    <<Until({"-"}), Until({"-"}), Until({"T", "t"}), Until({":"}), Until({":"})>>

\* The date and time of the field values v = <<Y, m, d, H, M, S>>, a
\* ValueError when a field did not match.
fields_datetime(v) ==
    IF \A i \in 1..Len(v) : v[i] >= 0
    THEN datetime(v[1], v[2], v[3], v[4], v[5], v[6])
    ELSE Raise("ValueError")

iso_datetime(f) ==
    IF Len(f) = 6
    THEN fields_datetime(<<re_Y(f[1]), re_m(f[2]), re_d(f[3]),
                           re_H(f[4]), re_M(f[5]), re_S(f[6])>>)
    ELSE Raise("ValueError")

\* datetime.strptime(dt_str, "%Y-%m-%dT%H:%M:%S"): every field must match its
\* directive as a whole; anything else is a ValueError.
strptime_iso(dt_str) == iso_datetime(scan(dt_str, format_iso))

\* "%a, %d %b %Y %H:%M:%S GMT": every blank of the format matches one or more
\* white-space characters; what is left after the last blank must be GMT.
format_rfc ==
    <<Take(3), Lit({","}), Blank, DigitsField, Blank, Take(3), Blank,
      DigitsField, Blank, Until({":"}), Until({":"}), DigitsField, Blank>>

rfc_datetime(f) ==
    IF Len(f) = 8 /\ re_a(f[1]) >= 0 /\ lower(f[8]) = <<"g", "m", "t">>
    THEN fields_datetime(<<re_Y(f[4]), re_b(f[3]), re_d(f[2]),
                           re_H(f[5]), re_M(f[6]), re_S(f[7])>>)
    ELSE Raise("ValueError")

\* datetime.strptime(dt_str, "%a, %d %b %Y %H:%M:%S GMT"): letters match in
\* either case, and the week day is not checked against the date.
strptime_rfc(dt_str) == rfc_datetime(scan(dt_str, format_rfc))

(***************************************************************************)
(* RackspaceObject                                                         *)
(***************************************************************************)
choose_type(content_type) == IF content_type = APP_DIR THEN "SUBDIR" ELSE "FILE"

from_subdir(info_obj) ==
    Return([name |-> info_obj["subdir"], obj_type |-> "SUBDIR"])

from_file_info(info_obj) ==
    LET dt_str == partition0(info_obj["last_modified"], ".")
        last_modified == strptime_iso(dt_str)
    IN  IF last_modified.kind = "raise" THEN last_modified
        ELSE Return([name |-> info_obj["name"],
                     size |-> info_obj["bytes"],
                     content_type |-> info_obj["content_type"],
                     last_modified |-> last_modified.value,
                     obj_type |-> choose_type(info_obj["content_type"])])

from_info(info_obj) ==
    IF "subdir" \in DOMAIN info_obj THEN from_subdir(info_obj)
    ELSE from_file_info(info_obj)

from_obj(file_obj) ==
    LET dt_str == file_obj.last_modified
        last_modified == strptime_rfc(dt_str)
    IN  IF last_modified.kind = "raise" THEN last_modified
        ELSE Return([name |-> file_obj.name,
                     size |-> file_obj.size,
                     content_type |-> file_obj.content_type,
                     last_modified |-> last_modified.value,
                     obj_type |-> choose_type(file_obj.content_type)])

(***************************************************************************)
(* The vendor SDK (cloudfiles), an external collaborator: each SDK call    *)
(* either returns a value or raises one of the SDK's errors.               *)
(***************************************************************************)
VendorErrors == {"NoSuchContainer", "NoSuchObject", "ResponseError"}

Ok(v) == [ok |-> TRUE, value |-> v]
Err(e) == [ok |-> FALSE, exc |-> e]

Str_a == <<"a">>
Str_a_txt == <<"a", ".", "t", "x", "t">>
Str_b_txt == <<"b", ".", "t", "x", "t">>

TS_2020 ==
    <<"2", "0", "2", "0", "-", "0", "1", "-", "0", "1", "T", "0", "0", ":",
      "0", "0", ":", "0", "0">>

TS_2010_fraction ==
    <<"2", "0", "1", "0", "-", "0", "4", "-", "1", "5", "T", "0", "1", ":",
      "5", "2", ":", "1", "3", ".", "9", "1", "9", "0", "7", "0">>

TS_2021 ==
    <<"2", "0", "2", "1", "-", "0", "5", "-", "0", "5", "T", "1", "0", ":",
      "0", "0", ":", "0", "0">>

TS_unpadded ==
    <<"2", "0", "2", "0", "-", "1", "-", "1", "T", "0", ":", "0", ":", "0">>

TS_garbage ==
    <<"g", "a", "r", "b", "a", "g", "e">>

FileInfo(n, ct, b, lm) ==
    [name |-> n, content_type |-> ct, bytes |-> b, last_modified |-> lm]

SubdirInfo(n) == [subdir |-> n \o <<SEP>>]

\* The listing entries list_objects_info can return: real objects (dummy
\* directory objects among them) and implied sub-directories.
Infos ==
    { FileInfo(Str_a, APP_DIR, 0, TS_2020),
      FileInfo(Str_a, TEXT_PLAIN, 5, TS_2010_fraction),
      FileInfo(Str_a_txt, TEXT_PLAIN, 5, TS_unpadded),
      FileInfo(Str_a_txt, TEXT_PLAIN, 5, TS_garbage),
      FileInfo(Str_b_txt, TEXT_PLAIN, 5, TS_2020),
      FileInfo(Str_b_txt, TEXT_PLAIN, 7, TS_2021),
      SubdirInfo(Str_a),
      SubdirInfo(Str_b_txt) }

\* The key the vendor lists an entry under.
InfoKey(info) == IF "subdir" \in DOMAIN info THEN info["subdir"] ELSE info["name"]

\* Object names are unique within a container, so one listing page never
\* holds two entries under the same key; the order is the vendor's.
Pages ==
    { p \in UNION { [1..n -> Infos] : n \in 0..MaxPage } :
        \A i, j \in 1..Len(p) : i # j => InfoKey(p[i]) # InfoKey(p[j]) }

Markers == {None, Str_a, Str_b_txt}
Paths == {None, <<>>, <<"d">>}
Limits == (-1..MaxLimit) \cup {RS_MAX_GET_OBJS_LIMIT, RS_MAX_GET_OBJS_LIMIT + 1}

(***************************************************************************)
(* RackspaceExceptionWrapper                                               *)
(***************************************************************************)
\* Variant of translations with the two entries crossed.
translations_swapped ==
    [NoSuchContainer |-> "NoObjectException", NoSuchObject |-> "NoContainerException"]

translations ==
    [NoSuchContainer |-> "NoContainerException", NoSuchObject |-> "NoObjectException"]

\* errors.CloudExceptionWrapper: a vendor error leaves the wrapped operation
\* as the common error the table names, any other vendor error as a
\* CloudException; everything else passes unchanged.
wrap_rs_errors(out) ==
    IF out.kind = "raise" /\ out.vendor
    THEN Raise(IF out.exc \in DOMAIN translations
               THEN translations[out.exc] ELSE "CloudException")
    ELSE out

(***************************************************************************)
(* RackspaceContainer.get_objects                                          *)
(***************************************************************************)
\* Variant of limit_exceeded that lets the limit sent to the vendor decide.
limit_exceeded_off_by_one(limit) == limit > RS_MAX_GET_OBJS_LIMIT + 1

limit_exceeded(limit) == limit > RS_MAX_GET_OBJS_LIMIT

RECURSIVE collapse_from(_, _)
collapse_from(infos, name0) ==
    IF infos = <<>> THEN <<>>
    ELSE LET info == Head(infos)
             name == get(info, "name", name0)
             subdir == strip(get(info, "subdir", <<>>), SEP)
         IN  (IF ~Truthy(name) \/ subdir # name THEN <<info>> ELSE <<>>)
                 \o collapse_from(Tail(infos), name)

\* Variants of _collapse: one that compares the implied name untrimmed, one
\* that drops an implied sub-directory whenever the page holds a real entry of
\* that name, wherever it stands.
RECURSIVE collapse_from_no_strip(_, _)
collapse_from_no_strip(infos, name0) ==
    IF infos = <<>> THEN <<>>
    ELSE LET info == Head(infos)
             name == get(info, "name", name0)
             subdir == get(info, "subdir", <<>>)
         IN  (IF ~Truthy(name) \/ subdir # name THEN <<info>> ELSE <<>>)
                 \o collapse_from_no_strip(Tail(infos), name)

collapse_no_strip(infos) == collapse_from_no_strip(infos, None)

_collapse(infos) == collapse_from(infos, None)

\* Variant of marker_trim that compares the implied name untrimmed.
marker_trim_no_strip(object_infos, marker) ==
    IF Truthy(marker) /\ get(object_infos[1], "subdir", <<>>) = marker
    THEN Tail(object_infos)
    ELSE object_infos

marker_trim(object_infos, marker) ==
    IF Truthy(marker)
       /\ strip(get(object_infos[1], "subdir", <<>>), SEP) = marker
    THEN Tail(object_infos)
    ELSE object_infos

\* s[:n]: the first n entries, or all but the last -n when n is negative
slice_to(s, n) ==
    LET stop == IF n >= 0 THEN n ELSE Len(s) + n
    IN  SubSeq(s, 1, IF stop > Len(s) THEN Len(s) ELSE IF stop < 0 THEN 0 ELSE stop)

\* Variant of truncate that cuts at the adjusted limit.
truncate_adjusted(object_infos, orig_limit) == slice_to(object_infos, orig_limit + 1)

truncate(object_infos, orig_limit) == slice_to(object_infos, orig_limit)

\* [from_info(x) for x in object_infos]: the first entry that cannot be
\* converted ends the comprehension with its error.
RECURSIVE Map_from_info(_)
Map_from_info(object_infos) ==
    IF object_infos = <<>> THEN Return(<<>>)
    ELSE LET first == from_info(Head(object_infos))
             rest == Map_from_info(Tail(object_infos))
         IN  IF first.kind = "raise" THEN first
             ELSE IF rest.kind = "raise" THEN rest
             ELSE Return(<<first.value>> \o rest.value)

\* The body of get_objects, before the error wrapper: the SDK calls it
\* issues, the listing after the collapsing step, and how it ends.
get_objects_body(path, marker, limit, resp) ==
    LET orig_limit == limit IN
    IF limit_exceeded(limit)
    THEN [calls |-> <<>>, collapsed |-> <<>>, out |-> Raise("CloudException")]
    ELSE
    LET limit1 == limit + 1
        path1 == IF Truthy(path) THEN path \o <<SEP>> ELSE <<>>
        call == [fn |-> "list_objects_info", limit |-> limit1,
                 delimiter |-> SEP, prefix |-> path1, marker |-> marker]
    IN  IF ~resp.ok
        THEN [calls |-> <<call>>, collapsed |-> <<>>, out |-> RaiseVendor(resp.exc)]
        ELSE
        LET object_infos == resp.value
            trimmed == marker_trim(object_infos, marker)
            coll == _collapse(trimmed)
            final == IF object_infos # <<>> THEN truncate(coll, orig_limit)
                     ELSE object_infos
        IN  [calls |-> <<call>>,
             collapsed |-> IF object_infos # <<>> THEN coll ELSE <<>>,
             out |-> Map_from_info(final)]

NoArgs == [none |-> TRUE]
NoResp == [none |-> TRUE]

Init ==
    /\ op = "init"
    /\ args = NoArgs
    /\ vendor_resp = NoResp
    /\ vendor_calls = <<>>
    /\ collapsed = <<>>
    /\ outcome = Return(None)

get_objects ==
    /\ op = "init"
    /\ \E path \in Paths, marker \in Markers, limit \in Limits,
          resp \in {Ok(p) : p \in Pages} \cup {Err(e) : e \in VendorErrors} :
        \E r \in {get_objects_body(path, marker, limit, resp)} :
        /\ op' = "get_objects"
        /\ args' = [path |-> path, marker |-> marker, limit |-> limit]
        /\ vendor_calls' = r.calls
        /\ vendor_resp' = IF r.calls = <<>> THEN NoResp ELSE resp
        /\ collapsed' = r.collapsed
        /\ outcome' = wrap_rs_errors(r.out)

(***************************************************************************)
(* The other adapter methods: each wraps one SDK call.                     *)
(***************************************************************************)
Str_missing == <<"m", "i", "s", "s", "i", "n", "g", "/", "p", "a", "t", "h">>

ObjectPaths == {Str_a, Str_b_txt, Str_missing}

RFC_2007 ==
    <<"T", "h", "u", ",", " ", "0", "7", " ", "J", "u", "n", " ", "2", "0",
      "0", "7", " ", "1", "8", ":", "5", "7", ":", "0", "7", " ", "G", "M",
      "T">>

RFC_wrong_weekday ==
    <<"M", "o", "n", ",", " ", "0", "8", " ", "J", "u", "n", " ", "2", "0",
      "0", "7", " ", "1", "8", ":", "5", "7", ":", "0", "7", " ", "G", "M",
      "T">>

RFC_garbage ==
    <<"0", "7", " ", "J", "u", "n", " ", "2", "0", "0", "7">>

NativeObjs ==
    { [name |-> Str_a, size |-> 0, content_type |-> APP_DIR,
       last_modified |-> RFC_2007],
      [name |-> Str_b_txt, size |-> 5, content_type |-> TEXT_PLAIN,
       last_modified |-> RFC_wrong_weekday],
      [name |-> Str_b_txt, size |-> 5, content_type |-> TEXT_PLAIN,
       last_modified |-> RFC_garbage] }

Contents == {"", "hello"}

ContainerNames == {"photos", "missing"}

NativeContainers ==
    { [name |-> "photos", object_count |-> 2, size_used |-> 5] }

ContainerInfos ==
    { <<>>,
      <<[name |-> "photos", count |-> 2, bytes |-> 5]>>,
      <<[name |-> "photos", count |-> 2, bytes |-> 5],
        [name |-> "videos", count |-> 0, bytes |-> 0]>> }

Responses(values) == {Ok(v) : v \in values} \cup {Err(e) : e \in VendorErrors}

\* A method body that makes the SDK call `call` and returns `made`.
one_call(call, resp, made) ==
    [calls |-> <<call>>,
     out |-> IF resp.ok THEN Return(made) ELSE RaiseVendor(resp.exc)]

\* RackspaceObject._get_object
Object_get_object_body(name, resp) ==
    one_call([fn |-> "get_object", name |-> name], resp,
             IF resp.ok THEN resp.value ELSE None)

\* RackspaceObject._read
Object_read_body(resp) ==
    one_call([fn |-> "read"], resp, IF resp.ok THEN resp.value ELSE None)

\* RackspaceContainer._get_container
Container_get_container_body(name, resp) ==
    one_call([fn |-> "get_container", name |-> name], resp,
             IF resp.ok THEN resp.value ELSE None)

\* RackspaceContainer.get_object
get_object_body(path, resp) ==
    [calls |-> <<[fn |-> "get_object", name |-> path]>>,
     out |-> IF resp.ok THEN from_obj(resp.value) ELSE RaiseVendor(resp.exc)]

\* RackspaceConnection._get_connection
Connection_get_connection_body(account, secret_key, rs_servicenet, resp) ==
    LET kwargs == IF rs_servicenet
                  THEN [username |-> account, api_key |-> secret_key,
                        servicenet |-> TRUE]
                  ELSE [username |-> account, api_key |-> secret_key]
    IN  one_call([fn |-> "get_connection", kwargs |-> kwargs], resp,
                 IF resp.ok THEN resp.value ELSE None)

\* RackspaceConnection._get_containers
Connection_get_containers_body(resp) ==
    one_call([fn |-> "list_containers_info"], resp,
             IF resp.ok
             THEN [i \in 1..Len(resp.value) |->
                     [name |-> resp.value[i].name,
                      count |-> resp.value[i].count,
                      size |-> resp.value[i].bytes]]
             ELSE None)

\* RackspaceConnection._get_container
Connection_get_container_body(path, resp) ==
    one_call([fn |-> "get_container", name |-> path], resp,
             IF resp.ok
             THEN [name |-> resp.value.name,
                   count |-> resp.value.object_count,
                   size |-> resp.value.size_used]
             ELSE None)

Object_get_object ==
    /\ op = "init"
    /\ \E name \in ObjectPaths, resp \in Responses(NativeObjs) :
        \E r \in {Object_get_object_body(name, resp)} :
        /\ op' = "Object._get_object"
        /\ args' = [name |-> name]
        /\ vendor_calls' = r.calls
        /\ vendor_resp' = resp
        /\ collapsed' = <<>>
        /\ outcome' = wrap_rs_errors(r.out)

Object_read ==
    /\ op = "init"
    /\ \E resp \in Responses(Contents) :
        \E r \in {Object_read_body(resp)} :
        /\ op' = "Object._read"
        /\ args' = NoArgs
        /\ vendor_calls' = r.calls
        /\ vendor_resp' = resp
        /\ collapsed' = <<>>
        /\ outcome' = wrap_rs_errors(r.out)

Container_get_container ==
    /\ op = "init"
    /\ \E name \in ContainerNames, resp \in Responses(NativeContainers) :
        \E r \in {Container_get_container_body(name, resp)} :
        /\ op' = "Container._get_container"
        /\ args' = [name |-> name]
        /\ vendor_calls' = r.calls
        /\ vendor_resp' = resp
        /\ collapsed' = <<>>
        /\ outcome' = wrap_rs_errors(r.out)

get_object ==
    /\ op = "init"
    /\ \E path \in ObjectPaths, resp \in Responses(NativeObjs) :
        \E r \in {get_object_body(path, resp)} :
        /\ op' = "get_object"
        /\ args' = [path |-> path]
        /\ vendor_calls' = r.calls
        /\ vendor_resp' = resp
        /\ collapsed' = <<>>
        /\ outcome' = wrap_rs_errors(r.out)

Connection_get_connection ==
    /\ op = "init"
    /\ \E rs_servicenet \in BOOLEAN, resp \in Responses({"native_conn"}) :
        \E r \in {Connection_get_connection_body("account", "secret_key",
                                                rs_servicenet, resp)} :
        /\ op' = "Connection._get_connection"
        /\ args' = [account |-> "account", secret_key |-> "secret_key",
                    rs_servicenet |-> rs_servicenet]
        /\ vendor_calls' = r.calls
        /\ vendor_resp' = resp
        /\ collapsed' = <<>>
        /\ outcome' = wrap_rs_errors(r.out)

Connection_get_containers ==
    /\ op = "init"
    /\ \E resp \in Responses(ContainerInfos) :
        \E r \in {Connection_get_containers_body(resp)} :
        /\ op' = "Connection._get_containers"
        /\ args' = NoArgs
        /\ vendor_calls' = r.calls
        /\ vendor_resp' = resp
        /\ collapsed' = <<>>
        /\ outcome' = wrap_rs_errors(r.out)

Connection_get_container ==
    /\ op = "init"
    /\ \E path \in ContainerNames, resp \in Responses(NativeContainers) :
        \E r \in {Connection_get_container_body(path, resp)} :
        /\ op' = "Connection._get_container"
        /\ args' = [path |-> path]
        /\ vendor_calls' = r.calls
        /\ vendor_resp' = resp
        /\ collapsed' = <<>>
        /\ outcome' = wrap_rs_errors(r.out)

Next ==
    \/ get_objects
    \/ get_object
    \/ Object_get_object
    \/ Object_read
    \/ Container_get_container
    \/ Connection_get_connection
    \/ Connection_get_containers
    \/ Connection_get_container

Spec == Init /\ [][Next]_vars

(***************************************************************************)
(* Properties                                                              *)
(***************************************************************************)
GetObjectsReturned == op = "get_objects" /\ outcome.kind = "return"

GetObjectsListed == op = "get_objects" /\ vendor_calls # <<>> /\ vendor_resp.ok

IsReal(info) == "name" \in DOMAIN info
IsImplied(info) == "subdir" \in DOMAIN info
IsDummyDir(info) == IsReal(info) /\ info["content_type"] = APP_DIR

RECURSIVE IsSubseq(_, _)
IsSubseq(s, t) ==
    IF s = <<>> THEN TRUE
    ELSE IF t = <<>> THEN FALSE
    ELSE IF Head(s) = Head(t) THEN IsSubseq(Tail(s), Tail(t))
    ELSE IsSubseq(s, Tail(t))

\* C1: within one page returned by get_objects, no two entries have the same
\* name once the path separator is trimmed.
C1_NoDuplicatePaths ==
    GetObjectsReturned =>
        \A i, j \in 1..Len(outcome.value) :
            i # j => strip(outcome.value[i].name, SEP)
                        # strip(outcome.value[j].name, SEP)

\* C2: a get_objects call with limit > RS_MAX_GET_OBJS_LIMIT raises
\* CloudException and issues no vendor call, whatever the path and marker.
C2_LimitCheckedBeforeVendor ==
    (op = "get_objects" /\ args.limit > RS_MAX_GET_OBJS_LIMIT) =>
        /\ outcome = Raise("CloudException")
        /\ vendor_calls = <<>>

C2_Witness ==
    /\ op = "get_objects"
    /\ args.limit = RS_MAX_GET_OBJS_LIMIT + 1
    /\ args.marker = Str_a
    /\ args.path = <<"d">>
    /\ outcome.kind = "raise"

\* C3: for 0 <= limit <= RS_MAX_GET_OBJS_LIMIT and every raw page, the
\* sequence get_objects returns has at most limit entries.
C3_AtMostLimit ==
    (GetObjectsReturned /\ args.limit >= 0
        /\ args.limit <= RS_MAX_GET_OBJS_LIMIT) =>
        Len(outcome.value) <= args.limit

C3_Witness ==
    /\ GetObjectsReturned
    /\ args.limit = 2
    /\ Len(vendor_resp.value) = args.limit + 1
    /\ Len(collapsed) = args.limit + 1
    /\ Len(outcome.value) = args.limit

C4_Page ==
    << SubdirInfo(Str_a),
       FileInfo(Str_a, APP_DIR, 0, TS_2020),
       FileInfo(Str_b_txt, TEXT_PLAIN, 5, TS_2020) >>

C4_Call(page) ==
    /\ GetObjectsReturned
    /\ vendor_resp.value = page
    /\ args.limit = 2
    /\ args.marker = None

Object_a_dir ==
    [name |-> Str_a, size |-> 0, content_type |-> APP_DIR,
     last_modified |-> <<2020, 1, 1, 0, 0, 0>>, obj_type |-> "SUBDIR"]

\* C4: for the raw page [implied 'a/', real 'a' of type
\* application/directory, real 'b.txt' of type text/plain], limit 2 and no
\* marker, get_objects returns exactly [Object 'a' SUBDIR, Object 'b.txt'
\* FILE]: the implied 'a/' is dropped as a duplicate of the real 'a'.
C4_ImpliedBeforeRealDropped ==
    C4_Call(C4_Page) =>
        /\ Len(outcome.value) = 2
        /\ outcome.value[1].name = Str_a
        /\ outcome.value[1].obj_type = "SUBDIR"
        /\ outcome.value[2].name = Str_b_txt
        /\ outcome.value[2].obj_type = "FILE"

\* C5: when a real entry named N of type application/directory is immediately
\* followed by an implied sub-directory whose trimmed name is N, the collapsing
\* step leaves exactly one entry named N: the real one, which becomes an
\* Object of type SUBDIR carrying the real entry's metadata.
C5_DummyDirKept ==
    GetObjectsListed =>
        LET raw == vendor_resp.value IN
        \A i \in 1..(Len(raw) - 1) :
            (/\ IsDummyDir(raw[i])
             /\ IsImplied(raw[i + 1])
             /\ strip(raw[i + 1]["subdir"], SEP) = raw[i]["name"]) =>
                LET N == raw[i]["name"]
                    hits == {k \in 1..Len(collapsed) :
                                strip(InfoKey(collapsed[k]), SEP) = N}
                IN  /\ Cardinality(hits) = 1
                    /\ \A k \in hits :
                        /\ IsReal(collapsed[k])
                        /\ collapsed[k] = raw[i]
                        /\ from_info(collapsed[k]).value.obj_type = "SUBDIR"
                        /\ from_info(collapsed[k]).value.name = N
                        /\ from_info(collapsed[k]).value.size = raw[i]["bytes"]
                        /\ from_info(collapsed[k]).value.content_type = APP_DIR
                        /\ (outcome.kind = "return" /\ k <= Len(outcome.value)
                                => outcome.value[k] = Object_a_dir)

C5_Witness ==
    /\ GetObjectsListed
    /\ outcome.kind = "return"
    /\ Len(vendor_resp.value) = 3
    /\ IsReal(vendor_resp.value[1])
    /\ IsDummyDir(vendor_resp.value[2])
    /\ IsImplied(vendor_resp.value[3])
    /\ strip(vendor_resp.value[3]["subdir"], SEP) = vendor_resp.value[2]["name"]
    /\ Len(collapsed) = 2
    /\ Len(outcome.value) = 2

\* C6: when a marker is given and the first raw entry is an implied
\* sub-directory whose trimmed name equals the marker, that entry is left out
\* of the returned sequence.
C6_MarkerEntryExcluded ==
    (/\ GetObjectsReturned
     /\ Truthy(args.marker)
     /\ vendor_resp.value # <<>>
     /\ IsImplied(vendor_resp.value[1])
     /\ strip(vendor_resp.value[1]["subdir"], SEP) = args.marker) =>
        /\ \A k \in 1..Len(outcome.value) :
                outcome.value[k] # from_info(vendor_resp.value[1]).value
        /\ IsSubseq([k \in 1..Len(outcome.value) |-> Return(outcome.value[k])],
                    [i \in 1..(Len(vendor_resp.value) - 1) |->
                        from_info(vendor_resp.value[i + 1])])

C6_Witness ==
    /\ GetObjectsReturned
    /\ args.marker = Str_a
    /\ Len(vendor_resp.value) = 3
    /\ vendor_resp.value[1] = SubdirInfo(Str_a)
    /\ Len(outcome.value) = 2

ExpectedError(e) ==
    CASE e = "NoSuchObject" -> "NoObjectException"
      [] e = "NoSuchContainer" -> "NoContainerException"
      [] OTHER -> "CloudException"

\* C7: a vendor error raised inside any adapter operation leaves it as the
\* mapped common error, never in vendor form: no such object as
\* NoObjectException, no such container as NoContainerException, any other
\* vendor error as CloudException.
C7_VendorErrorsTranslated ==
    /\ outcome.kind = "raise" => ~outcome.vendor /\ outcome.exc \notin VendorErrors
    /\ (vendor_calls # <<>> /\ ~vendor_resp.ok) =>
            outcome = Raise(ExpectedError(vendor_resp.exc))

C7_Witness ==
    /\ op = "get_object"
    /\ args.path = Str_missing
    /\ vendor_resp = Err("NoSuchObject")
    /\ outcome = Raise("NoObjectException")

\* C8: when the fetched listing holds application/directory objects,
\* get_objects makes an extra vendor query of double the limit (stated here
\* for limits of at least 1).
C8_ExtraDoubleQuery ==
    (GetObjectsListed /\ args.limit >= 1
        /\ \E i \in 1..Len(vendor_resp.value) : IsDummyDir(vendor_resp.value[i])) =>
        \E k \in 2..Len(vendor_calls) : vendor_calls[k].limit = 2 * args.limit

\* C9: the limit get_objects passes to list_objects_info never exceeds
\* RS_MAX_GET_OBJS_LIMIT.
C9_VendorLimitWithinCeiling ==
    op = "get_objects" =>
        \A k \in 1..Len(vendor_calls) :
            vendor_calls[k].limit <= RS_MAX_GET_OBJS_LIMIT

\* C10: if the vendor returns limit+1 raw entries and none of them is of type
\* application/directory, the returned page has exactly limit entries (stated
\* here for limits of at least 0).
C10_FullPageWithoutDummyDirs ==
    (/\ GetObjectsReturned
     /\ args.limit >= 0
     /\ Len(vendor_resp.value) = args.limit + 1
     /\ \A i \in 1..Len(vendor_resp.value) : ~IsDummyDir(vendor_resp.value[i])) =>
        Len(outcome.value) = args.limit

====
